---- MODULE Spec2Model ----
(***************************************************************************)
(* Model of the retry-and-fallback request policy of grab.py:              *)
(* safe_generate_content (primary provider with backoff) and               *)
(* generate_with_openai_fallback (secondary provider, audio staging).      *)
(* Spec runs requests of any shape; ClassifySpec runs the classification   *)
(* over many error messages; AppSpec runs the requests the page's button   *)
(* handlers make through the helper functions, with the session variables. *)
(* Strings are sequences of one-character strings so that lower() and the  *)
(* substring test `k in s` are computed, not assumed.                      *)
(***************************************************************************)
EXTENDS Integers, Sequences, FiniteSets, TLC

VARIABLES
    pc,             \* position of the request: idle, primary, after_loop, fallback, chat, done
    requests,       \* number of direct calls of safe_generate_content (Start) so far
    openai_client,  \* TRUE iff the module-level openai_client is not None
    contents,       \* argument of safe_generate_content
    attempt,        \* loop variable of `for attempt in range(retries)`
    delay,          \* local delay
    last_exception, \* local last_exception (None or the message of the exception)
    idx,            \* position of `for item in contents` in the fallback
    prompt_parts,   \* local prompt_parts of the fallback
    final_prompt,   \* user message submitted to chat.completions.create
    result,         \* value returned by safe_generate_content
    calls,          \* calls made to the outside world by this request, in order
    st_log,         \* st.warning / st.error messages issued by this request, in order
    files,          \* names of the temporary files that exist on disk
    tmp_created,    \* names of the temporary files created by this request
    lyrics_raw,       \* st.session_state.lyrics_raw
    lyrics_processed, \* st.session_state.lyrics_processed
    lyrics_finglish,  \* st.session_state.lyrics_finglish
    handler,        \* helper function a button handler is waiting for, or "none"
    text_arg,       \* text the running handler works on (extracted_text, raw_input, ...)
    last_ret,       \* the last return of a helper function: name, argument, value
    clicks          \* number of button clicks handled so far

vars == <<pc, requests, openai_client, contents, attempt, delay, last_exception,
          idx, prompt_parts, final_prompt, result, calls, st_log, files,
          tmp_created, lyrics_raw, lyrics_processed, lyrics_finglish, handler,
          text_arg, last_ret, clicks>>

\* the state of the page around the request: session variables and button handlers
callerVars == <<lyrics_raw, lyrics_processed, lyrics_finglish, handler, text_arg,
                last_ret, clicks>>

(* ------------------------------ bounds --------------------------------- *)

MaxRequests == 2

MaxParts == 2

\* button clicks handled in a session
MaxClicks == 2

\* longest error message of the classification runs, in fragments
MaxFragments == 2

(* ------------------------------ strings -------------------------------- *)

\* the Python value None (no string has a character "None")
None == <<"None">>

UpperChars == <<"A","B","C","D","E","F","G","H","I","J","K","L","M",
                "N","O","P","Q","R","S","T","U","V","W","X","Y","Z">>

LowerChars == <<"a","b","c","d","e","f","g","h","i","j","k","l","m",
                "n","o","p","q","r","s","t","u","v","w","x","y","z">>

\* str.lower() on one character
LowerChar(c) ==
    IF \E i \in 1..Len(UpperChars) : UpperChars[i] = c
    THEN LowerChars[CHOOSE i \in 1..Len(UpperChars) : UpperChars[i] = c]
    ELSE c

\* str.lower()
Lower(s) == [i \in 1..Len(s) |-> LowerChar(s[i])]

\* the Python test `k in s` on strings
Contains(s, k) ==
    \E i \in 1..(Len(s) - Len(k) + 1) : SubSeq(s, i, i + Len(k) - 1) = k

\* any(k in s for k in ks)
AnyIn(ks, s) == \E j \in 1..Len(ks) : Contains(s, ks[j])

K429 == <<"4","2","9">>
KQuota == <<"q","u","o","t","a">>
KResource == <<"r","e","s","o","u","r","c","e">>
KExhausted == <<"e","x","h","a","u","s","t","e","d">>
KLimit == <<"l","i","m","i","t">>

\* keyword list of the retry loop
LoopKeywords == <<K429, KQuota, KResource, KExhausted, KLimit>>

\* variant: the fallback trigger knows fewer keywords than the loop
FallbackKeywordsNarrow == <<KQuota, K429>>

\* keyword list of the fallback trigger
FallbackKeywords == <<KQuota, K429, KResource, KExhausted, KLimit>>

\* variant: every error is retried
IsQuotaInLoopAlways(e) == TRUE

\* classification inside the retry loop: error_str = str(e).lower()
IsQuotaInLoop(e) == AnyIn(LoopKeywords, Lower(e))

\* variant: every error triggers the fallback
IsQuotaAfterLoopAnyError(le) == le # None

\* classification after the loop: str(last_exception).lower() if last_exception else ""
IsQuotaAfterLoop(le) == AnyIn(FallbackKeywords, IF le = None THEN <<>> ELSE Lower(le))

(* ------------------------ inputs and outcomes -------------------------- *)

Msg429 == <<"4","2","9"," ","T","o","o"," ","M","a","n","y">>
MsgQuota == <<"Q","u","o","t","a"," ","e","x","c","e","e","d","e","d">>
MsgInvalid == <<"i","n","v","a","l","i","d"," ","a","r","g">>
\* messages of the exceptions the primary provider may raise
PrimaryErrors == {Msg429, MsgQuota, MsgInvalid}

\* messages of the exceptions the secondary provider may raise
SecondaryErrors == {<<"d","o","w","n">>}

\* texts of the responses of the primary provider (one is blank)
PrimaryTexts == {<<"G","\n">>, <<" ">>}

\* texts of the chat completions of the secondary provider
ChatTexts == {<<"A","B","C">>}

TranscriptionTexts == {<<"T">>}

MimeMpeg == <<"a","u","d","i","o","/","M","P","E","G">>

MimeWav == <<"a","u","d","i","o","/","w","a","v">>

\* an element of a list request: a str, or a dict with "data" (and maybe "mime_type")
StrItem(t) == [type |-> "str", text |-> t, mime_type |-> None]

DictItem(m) == [type |-> "dict", text |-> None, mime_type |-> m]

Items == {StrItem(<<"p">>), DictItem(MimeMpeg), DictItem(None)}

\* a request: a plain string, or a list of 1..MaxParts items
Requests ==
    {[list |-> FALSE, items |-> <<StrItem(<<"p">>)>>]}
    \cup {[list |-> TRUE, items |-> s] : s \in UNION {[1..n -> Items] : n \in 1..MaxParts}}

(* --------------------- generate_with_openai_fallback ------------------- *)

\* file name suffix chosen from the mime type
Suffix(item) ==
    IF item.mime_type = None THEN ".wav"
    ELSE LET mt == Lower(item.mime_type) IN
         IF Contains(mt, <<"m","p","e","g">>) \/ Contains(mt, <<"m","p","3">>) THEN ".mp3"
         ELSE IF Contains(mt, <<"o","g","g">>) THEN ".ogg"
         ELSE IF Contains(mt, <<"w","e","b","m">>) THEN ".webm"
         ELSE IF Contains(mt, <<"m","p","4">>) \/ Contains(mt, <<"m","4","a">>) THEN ".m4a"
         ELSE IF Contains(mt, <<"f","l","a","c">>) THEN ".flac"
         ELSE ".wav"

\* f"\n[Audio Transcription]: {transcription.text}\n"
TranscriptionPart(t) == <<"\n", "[Audio Transcription]: ">> \o t \o <<"\n">>

RECURSIVE Join(_)
\* " ".join(parts)
Join(parts) ==
    IF Len(parts) = 0 THEN <<>>
    ELSE IF Len(parts) = 1 THEN parts[1]
    ELSE parts[1] \o <<" ">> \o Join(Tail(parts))

\* MockResponse(text) / the response object of the primary provider
Response(provider, text) == [provider |-> provider, text |-> text]

\* `return None`
NoResponse == Response("None", None)

\* no request yet
NoContents == [list |-> FALSE, items |-> <<>>]

\* a call to the outside world: operation, argument, whether it returned, what it
\* returned or raised
Call(op, arg, ok, val) == [op |-> op, arg |-> arg, ok |-> ok, val |-> val]

\* tempfile.NamedTemporaryFile picks a name no existing file has
NewTmp(fs) == CHOOSE n \in 1..(Cardinality(fs) + 1) :
                  n \notin fs /\ \A m \in 1..(n - 1) : m \in fs

StMsg(level, kind, msg) == [level |-> level, kind |-> kind, msg |-> msg]

\* step 3 of safe_generate_content: st.error("API Error") when an exception was seen
FinalErrorReporting(log, le) ==
    IF le # None THEN Append(log, StMsg("error", "APIError", le)) ELSE log

\* a helper function returned: its name, whether its response was truthy, its
\* text argument and the value it returned
Ret(fn, ok, arg, value) == [fn |-> fn, ok |-> ok, arg |-> arg, value |-> value]

\* no helper function has returned yet
NoRet == Ret("none", FALSE, <<>>, <<>>)

\* where the fallback stands after the item at position i: next item, or the chat call
FallbackPc(c, i) == IF c.list /\ i <= Len(c.items) THEN "fallback" ELSE "chat"

(* --------------------------- initial state ----------------------------- *)

Init ==
    /\ pc = "idle"
    /\ requests = 0
    /\ openai_client \in BOOLEAN
    /\ contents = NoContents
    /\ attempt = 0
    /\ delay = 1
    /\ last_exception = None
    /\ idx = 1
    /\ prompt_parts = <<>>
    /\ final_prompt = None
    /\ result = NoResponse
    /\ calls = <<>>
    /\ st_log = <<>>
    /\ files = {}
    /\ tmp_created = {}
    /\ lyrics_raw = <<>>
    /\ lyrics_processed = <<>>
    /\ lyrics_finglish = <<>>
    /\ handler = "none"
    /\ text_arg = <<>>
    /\ last_ret = NoRet
    /\ clicks = 0

(* ------------------------- safe_generate_content ----------------------- *)

\* variant: one more primary attempt
retriesThree == 2 + 1

retries == 2

InitialDelay == 1

\* variant: the delay is not reset when a request starts
StartKeepsDelay(c) ==
    /\ pc \in {"idle", "done"}
    /\ requests < MaxRequests
    /\ requests' = requests + 1
    /\ contents' = c
    /\ attempt' = 0
    /\ delay' = delay
    /\ last_exception' = None
    /\ idx' = 1
    /\ prompt_parts' = <<>>
    /\ final_prompt' = None
    /\ result' = NoResponse
    /\ calls' = <<>>
    /\ st_log' = <<>>
    /\ tmp_created' = {}
    /\ pc' = "primary"
    /\ UNCHANGED <<openai_client, files>>
    /\ UNCHANGED callerVars

\* a caller invokes safe_generate_content(c)
Start(c) ==
    /\ pc \in {"idle", "done"}
    /\ requests < MaxRequests
    /\ requests' = requests + 1
    /\ contents' = c
    /\ attempt' = 0
    /\ delay' = InitialDelay
    /\ last_exception' = None
    /\ idx' = 1
    /\ prompt_parts' = <<>>
    /\ final_prompt' = None
    /\ result' = NoResponse
    /\ calls' = <<>>
    /\ st_log' = <<>>
    /\ tmp_created' = {}
    /\ pc' = "primary"
    /\ UNCHANGED <<openai_client, files>>
    /\ UNCHANGED callerVars

\* variant: the response is stored but the loop goes on
PrimarySucceedsNoReturn(t) ==
    /\ pc = "primary"
    /\ calls' = Append(calls, Call("generate_content", "", TRUE, t))
    /\ result' = Response("primary", t)
    /\ attempt' = attempt + 1
    /\ pc' = IF attempt + 1 < 2 THEN "primary" ELSE "done"
    /\ UNCHANGED <<requests, openai_client, contents, delay, last_exception,
                   idx, prompt_parts, final_prompt, st_log, files, tmp_created>>
    /\ UNCHANGED callerVars

\* model.generate_content returns: the response is returned at once
PrimarySucceeds(t) ==
    /\ pc = "primary"
    /\ calls' = Append(calls, Call("generate_content", "", TRUE, t))
    /\ result' = Response("primary", t)
    /\ pc' = "done"
    /\ UNCHANGED <<requests, openai_client, contents, attempt, delay, last_exception,
                   idx, prompt_parts, final_prompt, st_log, files, tmp_created>>
    /\ UNCHANGED callerVars

\* variant: a quota failure is not retried, the loop is left after one attempt
PrimaryRaisesNoRetry(e) ==
    /\ pc = "primary"
    /\ last_exception' = e
    /\ IF IsQuotaInLoop(e)
       THEN /\ calls' = calls \o <<Call("generate_content", "", FALSE, e),
                                  Call("sleep", "", TRUE, delay)>>
            /\ delay' = delay * 2
            /\ attempt' = attempt + 1
       ELSE /\ calls' = Append(calls, Call("generate_content", "", FALSE, e))
            /\ UNCHANGED <<delay, attempt>>
    /\ pc' = "after_loop"
    /\ UNCHANGED <<requests, openai_client, contents, idx, prompt_parts, final_prompt,
                   result, st_log, files, tmp_created>>
    /\ UNCHANGED callerVars

\* variant: the first exception is kept, later ones are not recorded
PrimaryRaisesKeepsFirst(e) ==
    /\ pc = "primary"
    /\ last_exception' = IF last_exception = None THEN e ELSE last_exception
    /\ IF IsQuotaInLoop(e)
       THEN /\ calls' = calls \o <<Call("generate_content", "", FALSE, e),
                                  Call("sleep", "", TRUE, delay)>>
            /\ delay' = delay * 2
            /\ attempt' = attempt + 1
            /\ pc' = IF attempt + 1 < 2 THEN "primary" ELSE "after_loop"
       ELSE /\ calls' = Append(calls, Call("generate_content", "", FALSE, e))
            /\ pc' = "after_loop"
            /\ UNCHANGED <<delay, attempt>>
    /\ UNCHANGED <<requests, openai_client, contents, idx, prompt_parts, final_prompt,
                   result, st_log, files, tmp_created>>
    /\ UNCHANGED callerVars

\* model.generate_content raises e: the except clause of the retry loop
PrimaryRaises(e) ==
    /\ pc = "primary"
    /\ last_exception' = e
    /\ IF IsQuotaInLoop(e)
       THEN /\ calls' = calls \o <<Call("generate_content", "", FALSE, e),
                                  Call("sleep", "", TRUE, delay)>>
            /\ delay' = delay * 2
            /\ attempt' = attempt + 1
            /\ pc' = IF attempt + 1 < retries THEN "primary" ELSE "after_loop"
       ELSE /\ calls' = Append(calls, Call("generate_content", "", FALSE, e))
            /\ pc' = "after_loop"
            /\ UNCHANGED <<delay, attempt>>
    /\ UNCHANGED <<requests, openai_client, contents, idx, prompt_parts, final_prompt,
                   result, st_log, files, tmp_created>>
    /\ UNCHANGED callerVars

\* variant: the missing-client branch does not return and falls through to step 3
AfterLoopNoEarlyReturn ==
    /\ pc = "after_loop"
    /\ IF IsQuotaAfterLoop(last_exception) /\ openai_client
       THEN /\ st_log' = Append(st_log, StMsg("warning", "Switching", None))
            /\ pc' = FallbackPc(contents, 1)
            /\ idx' = 1
            /\ prompt_parts' = IF contents.list THEN <<>> ELSE <<contents.items[1].text>>
            /\ UNCHANGED result
       ELSE /\ st_log' = FinalErrorReporting(
                            IF IsQuotaAfterLoop(last_exception)
                            THEN Append(st_log, StMsg("error", "QuotaExceeded", None))
                            ELSE st_log,
                            last_exception)
            /\ result' = NoResponse
            /\ pc' = "done"
            /\ UNCHANGED <<idx, prompt_parts>>
    /\ UNCHANGED <<requests, openai_client, contents, attempt, delay, last_exception,
                   final_prompt, calls, files, tmp_created>>
    /\ UNCHANGED callerVars

\* after the loop: fallback trigger, the missing-client report, the final error report
AfterLoop ==
    /\ pc = "after_loop"
    /\ IF IsQuotaAfterLoop(last_exception)
       THEN IF openai_client
            THEN /\ st_log' = Append(st_log, StMsg("warning", "Switching", None))
                 /\ pc' = FallbackPc(contents, 1)
                 /\ idx' = 1
                 /\ prompt_parts' = IF contents.list THEN <<>> ELSE <<contents.items[1].text>>
                 /\ UNCHANGED result
            ELSE /\ st_log' = Append(st_log, StMsg("error", "QuotaExceeded", None))
                 /\ result' = NoResponse
                 /\ pc' = "done"
                 /\ UNCHANGED <<idx, prompt_parts>>
       ELSE /\ st_log' = FinalErrorReporting(st_log, last_exception)
            /\ result' = NoResponse
            /\ pc' = "done"
            /\ UNCHANGED <<idx, prompt_parts>>
    /\ UNCHANGED <<requests, openai_client, contents, attempt, delay, last_exception,
                   final_prompt, calls, files, tmp_created>>
    /\ UNCHANGED callerVars

\* for item in contents: a str item is appended to prompt_parts
FallbackStrItem ==
    /\ pc = "fallback"
    /\ contents.items[idx].type = "str"
    /\ prompt_parts' = Append(prompt_parts, contents.items[idx].text)
    /\ idx' = idx + 1
    /\ pc' = FallbackPc(contents, idx + 1)
    /\ UNCHANGED <<requests, openai_client, contents, attempt, delay, last_exception,
                   final_prompt, result, calls, st_log, files, tmp_created>>
    /\ UNCHANGED callerVars

\* an audio item: the temp file is written, the transcription returns t, the file is unlinked
TranscribeSucceeds(t) ==
    /\ pc = "fallback"
    /\ contents.items[idx].type = "dict"
    /\ LET tmp_filepath == NewTmp(files) IN
       /\ calls' = Append(calls, Call("transcribe", Suffix(contents.items[idx]), TRUE, t))
       /\ prompt_parts' = Append(prompt_parts, TranscriptionPart(t))
       /\ files' = (files \cup {tmp_filepath}) \ {tmp_filepath}
       /\ tmp_created' = tmp_created \cup {tmp_filepath}
    /\ idx' = idx + 1
    /\ pc' = FallbackPc(contents, idx + 1)
    /\ UNCHANGED <<requests, openai_client, contents, attempt, delay, last_exception,
                   final_prompt, result, st_log>>
    /\ UNCHANGED callerVars

\* an audio item: the temp file is written, the transcription raises e, st.warning
TranscribeRaises(e) ==
    /\ pc = "fallback"
    /\ contents.items[idx].type = "dict"
    /\ LET tmp_filepath == NewTmp(files) IN
       /\ calls' = Append(calls, Call("transcribe", Suffix(contents.items[idx]), FALSE, e))
       /\ files' = files \cup {tmp_filepath}
       /\ tmp_created' = tmp_created \cup {tmp_filepath}
    /\ st_log' = Append(st_log, StMsg("warning", "FallbackAudioProcessingError", e))
    /\ idx' = idx + 1
    /\ pc' = FallbackPc(contents, idx + 1)
    /\ UNCHANGED <<requests, openai_client, contents, attempt, delay, last_exception,
                   prompt_parts, final_prompt, result>>
    /\ UNCHANGED callerVars

\* variant: the fallback response is treated as falsy and dropped
ChatSucceedsDropped(t) ==
    /\ pc = "chat"
    /\ final_prompt' = Join(prompt_parts)
    /\ calls' = Append(calls, Call("chat", "", TRUE, t))
    /\ st_log' = FinalErrorReporting(st_log, last_exception)
    /\ result' = NoResponse
    /\ pc' = "done"
    /\ UNCHANGED <<requests, openai_client, contents, attempt, delay, last_exception,
                   idx, prompt_parts, files, tmp_created>>
    /\ UNCHANGED callerVars

\* chat.completions.create returns t: MockResponse(t) is returned by both functions
ChatSucceeds(t) ==
    /\ pc = "chat"
    /\ final_prompt' = Join(prompt_parts)
    /\ calls' = Append(calls, Call("chat", "", TRUE, t))
    /\ result' = Response("secondary", t)
    /\ pc' = "done"
    /\ UNCHANGED <<requests, openai_client, contents, attempt, delay, last_exception,
                   idx, prompt_parts, st_log, files, tmp_created>>
    /\ UNCHANGED callerVars

\* variant: a failed chat completion is tried once more
ChatRaisesRetries(e) ==
    /\ pc = "chat"
    /\ final_prompt' = Join(prompt_parts)
    /\ calls' = Append(calls, Call("chat", "", FALSE, e))
    /\ IF \E i \in DOMAIN calls : calls[i].op = "chat"
       THEN /\ st_log' = FinalErrorReporting(
                            Append(st_log, StMsg("error", "OpenAIFallbackFailed", e)),
                            last_exception)
            /\ pc' = "done"
       ELSE /\ pc' = "chat"
            /\ UNCHANGED st_log
    /\ result' = NoResponse
    /\ UNCHANGED <<requests, openai_client, contents, attempt, delay, last_exception,
                   idx, prompt_parts, files, tmp_created>>
    /\ UNCHANGED callerVars

\* chat.completions.create raises e: the fallback reports and returns None, and
\* safe_generate_content falls through to its final error report
ChatRaises(e) ==
    /\ pc = "chat"
    /\ final_prompt' = Join(prompt_parts)
    /\ calls' = Append(calls, Call("chat", "", FALSE, e))
    /\ st_log' = FinalErrorReporting(
                    Append(st_log, StMsg("error", "OpenAIFallbackFailed", e)),
                    last_exception)
    /\ result' = NoResponse
    /\ pc' = "done"
    /\ UNCHANGED <<requests, openai_client, contents, attempt, delay, last_exception,
                   idx, prompt_parts, files, tmp_created>>
    /\ UNCHANGED callerVars

(* ------------------------ helper functions and handlers ---------------- *)

Whitespace == {" ", "\n", "\t"}

RECURSIVE LStrip(_)
LStrip(t) == IF Len(t) > 0 /\ t[1] \in Whitespace THEN LStrip(Tail(t)) ELSE t

RECURSIVE RStrip(_)
RStrip(t) ==
    IF Len(t) > 0 /\ t[Len(t)] \in Whitespace THEN RStrip(SubSeq(t, 1, Len(t) - 1)) ELSE t

\* str.strip()
Strip(t) == RStrip(LStrip(t))

\* the prompts: a fixed instruction, with the text where the f-string has it
DiacriticsPrompt(text) == <<"[diacritics]">> \o text

FinglishPrompt(text) == <<"[finglish]">> \o text

ExtractPrompt == <<"[extract]">>

VoicePrompt(current_text) == <<"[correct]">> \o current_text

\* safe_generate_content(prompt)
StringRequest(prompt) == [list |-> FALSE, items |-> <<StrItem(prompt)>>]

\* safe_generate_content([prompt, {"mime_type": m, "data": audio_bytes}])
AudioRequest(prompt, m) == [list |-> TRUE, items |-> <<StrItem(prompt), DictItem(m)>>]

\* the types of the files a user uploads
UploadTypes == {MimeMpeg}

\* what a user types into the lyrics text area
RawInputs == {<<>>, <<"u">>}

\* a helper function calls safe_generate_content(c): the locals of a new request
Begin(c) ==
    /\ contents' = c
    /\ attempt' = 0
    /\ delay' = InitialDelay
    /\ last_exception' = None
    /\ idx' = 1
    /\ prompt_parts' = <<>>
    /\ final_prompt' = None
    /\ result' = NoResponse
    /\ calls' = <<>>
    /\ st_log' = <<>>
    /\ tmp_created' = {}
    /\ pc' = "primary"
    /\ UNCHANGED <<requests, openai_client, files>>

\* the request state is left as it is
NoRequest ==
    UNCHANGED <<pc, requests, openai_client, contents, attempt, delay, last_exception,
                idx, prompt_parts, final_prompt, result, calls, st_log, files,
                tmp_created>>

\* `if response:` on the value safe_generate_content returned
Truthy(r) == r # NoResponse

\* button "Extract Lyrics (AI Vocal Focus) & Auto-Generate" with an uploaded file
ClickExtract(m) ==
    /\ handler = "none"
    /\ clicks < MaxClicks
    /\ clicks' = clicks + 1
    /\ handler' = "extract_lyrics_from_audio"
    /\ Begin(AudioRequest(ExtractPrompt, m))
    /\ UNCHANGED <<lyrics_raw, lyrics_processed, lyrics_finglish, text_arg, last_ret>>

\* variant: the extracted text is used without the `if extracted_text:` test
ExtractReturnsUnguarded ==
    /\ handler = "extract_lyrics_from_audio"
    /\ pc = "done"
    /\ LET extracted_text == IF Truthy(result) THEN Strip(result.text) ELSE <<>> IN
       /\ last_ret' = Ret("extract_lyrics_from_audio", Truthy(result), <<>>, extracted_text)
       /\ lyrics_raw' = extracted_text
       /\ text_arg' = extracted_text
       /\ handler' = "generate_diacritics"
       /\ Begin(StringRequest(DiacriticsPrompt(extracted_text)))
       /\ UNCHANGED <<lyrics_processed, lyrics_finglish, clicks>>

\* extract_lyrics_from_audio returns; the handler stores the text and goes on to
\* generate_diacritics, or does nothing when the text is empty
ExtractReturns ==
    /\ handler = "extract_lyrics_from_audio"
    /\ pc = "done"
    /\ LET extracted_text == IF Truthy(result) THEN Strip(result.text) ELSE <<>> IN
       /\ last_ret' = Ret("extract_lyrics_from_audio", Truthy(result), <<>>, extracted_text)
       /\ IF extracted_text # <<>>
          THEN /\ lyrics_raw' = extracted_text
               /\ text_arg' = extracted_text
               /\ handler' = "generate_diacritics"
               /\ Begin(StringRequest(DiacriticsPrompt(extracted_text)))
               /\ UNCHANGED <<lyrics_processed, lyrics_finglish, clicks>>
          ELSE /\ handler' = "none"
               /\ NoRequest
               /\ UNCHANGED <<lyrics_raw, lyrics_processed, lyrics_finglish, text_arg,
                              clicks>>

\* button "Generate Outputs" with raw_input in the text area
ClickGenerate(raw_input) ==
    /\ handler = "none"
    /\ clicks < MaxClicks
    /\ clicks' = clicks + 1
    /\ IF raw_input # <<>>
       THEN /\ lyrics_raw' = raw_input
            /\ text_arg' = raw_input
            /\ handler' = "generate_diacritics"
            /\ Begin(StringRequest(DiacriticsPrompt(raw_input)))
            /\ UNCHANGED <<lyrics_processed, lyrics_finglish, last_ret>>
       ELSE /\ NoRequest
            /\ UNCHANGED <<lyrics_raw, lyrics_processed, lyrics_finglish, handler,
                           text_arg, last_ret>>

\* generate_diacritics returns (the text itself when the request failed); the
\* handler stores it and calls generate_finglish on the same text
DiacriticsReturns ==
    /\ handler = "generate_diacritics"
    /\ pc = "done"
    /\ LET value == IF Truthy(result) THEN Strip(result.text) ELSE text_arg IN
       /\ last_ret' = Ret("generate_diacritics", Truthy(result), text_arg, value)
       /\ lyrics_processed' = value
    /\ handler' = "generate_finglish"
    /\ Begin(StringRequest(FinglishPrompt(text_arg)))
    /\ UNCHANGED <<lyrics_raw, lyrics_finglish, text_arg, clicks>>

\* generate_finglish returns ("" when the request failed); the handler stores it
\* and ends (st.rerun)
FinglishReturns ==
    /\ handler = "generate_finglish"
    /\ pc = "done"
    /\ LET value == IF Truthy(result) THEN Strip(result.text) ELSE <<>> IN
       /\ last_ret' = Ret("generate_finglish", Truthy(result), text_arg, value)
       /\ lyrics_finglish' = value
    /\ handler' = "none"
    /\ NoRequest
    /\ UNCHANGED <<lyrics_raw, lyrics_processed, text_arg, clicks>>

\* button "Apply Voice Correction" with a recording
ClickVoice ==
    /\ handler = "none"
    /\ clicks < MaxClicks
    /\ clicks' = clicks + 1
    /\ IF lyrics_processed # <<>>
       THEN /\ text_arg' = lyrics_processed
            /\ handler' = "process_voice_correction"
            /\ Begin(AudioRequest(VoicePrompt(lyrics_processed), MimeWav))
            /\ UNCHANGED <<lyrics_raw, lyrics_processed, lyrics_finglish, last_ret>>
       ELSE /\ NoRequest
            /\ UNCHANGED <<lyrics_raw, lyrics_processed, lyrics_finglish, handler,
                           text_arg, last_ret>>

\* variant: process_voice_correction returns "" when the request failed
VoiceReturnsEmpty ==
    /\ handler = "process_voice_correction"
    /\ pc = "done"
    /\ LET corrected_persian == IF Truthy(result) THEN Strip(result.text) ELSE <<>> IN
       /\ last_ret' = Ret("process_voice_correction", Truthy(result), text_arg,
                          corrected_persian)
       /\ lyrics_processed' = corrected_persian
       /\ text_arg' = corrected_persian
       /\ Begin(StringRequest(FinglishPrompt(corrected_persian)))
    /\ handler' = "generate_finglish"
    /\ UNCHANGED <<lyrics_raw, lyrics_finglish, clicks>>

\* process_voice_correction returns (current_text when the request failed); the
\* handler stores it and calls generate_finglish on it
VoiceReturns ==
    /\ handler = "process_voice_correction"
    /\ pc = "done"
    /\ LET corrected_persian == IF Truthy(result) THEN Strip(result.text) ELSE text_arg IN
       /\ last_ret' = Ret("process_voice_correction", Truthy(result), text_arg,
                          corrected_persian)
       /\ lyrics_processed' = corrected_persian
       /\ text_arg' = corrected_persian
       /\ Begin(StringRequest(FinglishPrompt(corrected_persian)))
    /\ handler' = "generate_finglish"
    /\ UNCHANGED <<lyrics_raw, lyrics_finglish, clicks>>

Next ==
    \/ \E c \in Requests : Start(c)
    \/ \E t \in PrimaryTexts : PrimarySucceeds(t)
    \/ \E e \in PrimaryErrors : PrimaryRaises(e)
    \/ AfterLoop
    \/ FallbackStrItem
    \/ \E t \in TranscriptionTexts : TranscribeSucceeds(t)
    \/ \E e \in SecondaryErrors : TranscribeRaises(e)
    \/ \E t \in ChatTexts : ChatSucceeds(t)
    \/ \E e \in SecondaryErrors : ChatRaises(e)

Spec == Init /\ [][Next]_vars

(* ----------------- classification over many error messages -------------- *)

\* pieces of error messages: keywords in several cases, split so that a keyword
\* can straddle two pieces, and pieces that only look like keywords
Fragments ==
    {<<"4","2">>, <<"9">>, <<"Q","U","O">>, <<"t","a">>, <<"R","e">>,
     <<"s","o","u","r","c","e">>, <<"e","x","h","a","u","s","t">>, <<"E","D">>,
     <<"l","i","m">>, <<"I","T">>, <<" ">>}

RECURSIVE Flatten(_)
\* the message spelled by a sequence of pieces
Flatten(fs) == IF Len(fs) = 0 THEN <<>> ELSE fs[1] \o Flatten(Tail(fs))

\* the messages of the exceptions the primary provider raises in these runs
ClassifyMessages ==
    {Flatten(fs) : fs \in UNION {[1..n -> Fragments] : n \in 0..MaxFragments}}

\* the primary provider fails every attempt of a request with the same message;
\* the request runs up to the decision taken after the loop
ClassifyNext ==
    \/ \E c \in {r \in Requests : ~r.list} : Start(c)
    \/ \E e \in ClassifyMessages :
          /\ last_exception \in {None, e}
          /\ PrimaryRaises(e)
    \/ AfterLoop

ClassifySpec == Init /\ [][ClassifyNext]_vars

\* the steps of a request in flight: every provider call and every sleep returns
Step ==
    \/ \E t \in PrimaryTexts : PrimarySucceeds(t)
    \/ \E e \in PrimaryErrors : PrimaryRaises(e)
    \/ AfterLoop
    \/ FallbackStrItem
    \/ \E t \in TranscriptionTexts : TranscribeSucceeds(t)
    \/ \E e \in SecondaryErrors : TranscribeRaises(e)
    \/ \E t \in ChatTexts : ChatSucceeds(t)
    \/ \E e \in SecondaryErrors : ChatRaises(e)

\* a synchronous call sequence: a request in flight is not suspended forever
FairSpec == Spec /\ WF_vars(Step)

\* the page: button clicks, the requests of their helper functions, the returns
AppNext ==
    \/ \E m \in UploadTypes : ClickExtract(m)
    \/ ExtractReturns
    \/ \E raw_input \in RawInputs \cup {lyrics_raw} : ClickGenerate(raw_input)
    \/ DiacriticsReturns
    \/ FinglishReturns
    \/ ClickVoice
    \/ VoiceReturns
    \/ \E t \in PrimaryTexts : PrimarySucceeds(t)
    \/ \E e \in PrimaryErrors : PrimaryRaises(e)
    \/ AfterLoop
    \/ FallbackStrItem
    \/ \E t \in TranscriptionTexts : TranscribeSucceeds(t)
    \/ \E e \in SecondaryErrors : TranscribeRaises(e)
    \/ \E t \in ChatTexts : ChatSucceeds(t)
    \/ \E e \in SecondaryErrors : ChatRaises(e)

AppSpec == Init /\ [][AppNext]_vars

(* ------------------------ vocabulary of the claims --------------------- *)

\* the quota / rate-limit keyword set of the specification
QuotaKeywords == {K429, KQuota, KResource, KExhausted, KLimit}

\* the message contains one of the keywords, case-insensitively
QuotaClassified(m) == \E k \in QuotaKeywords : Contains(Lower(m), k)

\* error classes of the specification, as the reports the code issues
PrimaryProviderError == "APIError"
QuotaExceededNoFallback == "QuotaExceeded"
SecondaryProviderError == "OpenAIFallbackFailed"

PrimaryIdx == {i \in DOMAIN calls : calls[i].op = "generate_content"}
SleepIdx == {i \in DOMAIN calls : calls[i].op = "sleep"}
ChatIdx == {i \in DOMAIN calls : calls[i].op = "chat"}
TranscribeIdx == {i \in DOMAIN calls : calls[i].op = "transcribe"}

\* calls of generate_with_openai_fallback made by this request
FallbackEntries == {i \in DOMAIN st_log : st_log[i].kind = "Switching"}

\* the secondary provider has been engaged by this request
SecondaryAttempted ==
    \/ FallbackEntries # {}
    \/ ChatIdx # {}
    \/ TranscribeIdx # {}
    \/ pc \in {"fallback", "chat"}

\* the st.error reports of this request
ErrorKinds == {st_log[i].kind : i \in {j \in DOMAIN st_log : st_log[j].level = "error"}}

\* the retry loop has been left
LoopOver == pc \in {"after_loop", "fallback", "chat", "done"}

\* the primary attempts are used up and every one failed with a quota error
PrimaryExhaustedByQuota ==
    /\ LoopOver
    /\ Cardinality(PrimaryIdx) = 2
    /\ \A i \in PrimaryIdx : ~calls[i].ok /\ QuotaClassified(calls[i].val)

(* -------------------------------- claims ------------------------------- *)

\* C1: a request that has left the retry loop made at least one primary attempt;
\* the secondary is engaged at most once, and only when every primary attempt
\* of the request failed with a quota-classified error.
C1_PrimaryFirstSecondaryOnce ==
    /\ LoopOver => Cardinality(PrimaryIdx) >= 1
    /\ Cardinality(FallbackEntries) <= 1
    /\ Cardinality(ChatIdx) <= 1
    /\ SecondaryAttempted =>
          /\ PrimaryIdx # {}
          /\ \A i \in PrimaryIdx : ~calls[i].ok /\ QuotaClassified(calls[i].val)

C1_Witness ==
    /\ pc = "done"
    /\ Cardinality(ChatIdx) = 1
    /\ Cardinality(PrimaryIdx) = 2

\* C2: a successful primary attempt is the last call of its request: the request
\* is finished, the result is the primary's response, and no later primary call,
\* sleep or secondary call exists.
C2_PrimarySuccessReturnsAtOnce ==
    \A i \in PrimaryIdx :
        calls[i].ok =>
            /\ i = Len(calls)
            /\ pc = "done"
            /\ result = Response("primary", calls[i].val)
            /\ ~SecondaryAttempted
            /\ tmp_created = {}

C2_Witness ==
    /\ pc = "done"
    /\ Cardinality(PrimaryIdx) = 2
    /\ calls[Len(calls)].op = "generate_content"
    /\ calls[Len(calls)].ok

\* C3: when a request ends after its primary attempts were exhausted by quota
\* failures and a secondary is configured, exactly one secondary attempt was made,
\* and if it succeeded the result is success with the secondary's text.
C3_ExhaustedQuotaOneSecondary ==
    (pc = "done" /\ PrimaryExhaustedByQuota /\ openai_client) =>
        /\ Cardinality(FallbackEntries) = 1
        /\ Cardinality(ChatIdx) = 1
        /\ \A i \in ChatIdx :
              calls[i].ok => result = Response("secondary", calls[i].val)

\* the scenario: "429 Too Many" twice, the secondary answers "ABC"
C3_Witness ==
    /\ pc = "done"
    /\ openai_client
    /\ Cardinality(PrimaryIdx) = 2
    /\ \A i \in PrimaryIdx : ~calls[i].ok /\ calls[i].val = Msg429
    /\ Cardinality(ChatIdx) = 1
    /\ result = Response("secondary", <<"A","B","C">>)

\* C4: when a secondary call of a finished request failed (transcription or chat
\* completion), the result is a failure reported as SecondaryProviderError with
\* the secondary's error, and as nothing else.
C4_SecondaryFailureClassified ==
    (pc = "done" /\ \E i \in ChatIdx \cup TranscribeIdx : ~calls[i].ok) =>
        /\ result = NoResponse
        /\ ErrorKinds = {SecondaryProviderError}
        /\ \E i \in ChatIdx \cup TranscribeIdx, j \in DOMAIN st_log :
              /\ ~calls[i].ok
              /\ st_log[j].kind = SecondaryProviderError
              /\ st_log[j].msg = calls[i].val

\* C5: when a request is finished, no temporary file it created still exists.
C5_NoTempFileLeft ==
    pc = "done" => tmp_created \cap files = {}

\* C6: once the retry loop is over, every sleep of the request lies between two
\* primary attempts (none before the first, none after the last).
C6_SleepOnlyBetweenPrimaries ==
    LoopOver =>
        \A k \in SleepIdx :
            /\ \E i \in PrimaryIdx : i < k
            /\ \E j \in PrimaryIdx : k < j

\* C7: between a primary attempt that failed with a quota error and the next
\* primary attempt there is a sleep; a request makes at most 2 primary attempts.
C7_BackoffBetweenAttempts ==
    /\ Cardinality(PrimaryIdx) <= 2
    /\ \A i, j \in PrimaryIdx :
          (i < j /\ ~calls[i].ok /\ QuotaClassified(calls[i].val)) =>
              \E k \in SleepIdx : i < k /\ k < j

C7_Witness ==
    /\ Cardinality(PrimaryIdx) = 2
    /\ \E i \in PrimaryIdx : ~calls[i].ok /\ QuotaClassified(calls[i].val)

\* C8: a primary attempt that failed with a non-quota error is the last call of
\* its request and the secondary is never engaged; when it is the first attempt,
\* the finished request has one primary attempt, no sleep, no secondary attempt
\* and the PrimaryProviderError report with that error.
C8_NonQuotaFailsFast ==
    \A i \in PrimaryIdx :
        (~calls[i].ok /\ ~QuotaClassified(calls[i].val)) =>
            /\ i = Len(calls)
            /\ LoopOver
            /\ ~SecondaryAttempted
            /\ (pc = "done" /\ i = 1) =>
                  /\ Cardinality(PrimaryIdx) = 1
                  /\ SleepIdx = {}
                  /\ result = NoResponse
                  /\ st_log = <<StMsg("error", PrimaryProviderError, calls[i].val)>>

\* the scenario: "invalid arg" on the first attempt
C8_Witness ==
    /\ pc = "done"
    /\ calls = <<Call("generate_content", "", FALSE, MsgInvalid)>>

\* C9: without a secondary, nothing of the secondary is ever touched; a request
\* whose primary attempts were exhausted by quota failures ends with the
\* QuotaExceededNoFallback report and no other.
C9_NoSecondaryConfigured ==
    ~openai_client =>
        /\ ~SecondaryAttempted
        /\ tmp_created = {}
        /\ (pc = "done" /\ PrimaryExhaustedByQuota) =>
              /\ result = NoResponse
              /\ st_log = <<StMsg("error", QuotaExceededNoFallback, None)>>

C9_Witness ==
    /\ ~openai_client
    /\ pc = "done"
    /\ PrimaryExhaustedByQuota
    /\ \A i \in PrimaryIdx : calls[i].val = MsgQuota

\* C10: a finished request produced exactly one of the outcomes success,
\* primary-error, quota-no-fallback, secondary-error.
C10_ExactlyOneOutcome ==
    pc = "done" =>
        Cardinality({o \in {"success", PrimaryProviderError,
                            QuotaExceededNoFallback, SecondaryProviderError} :
                        \/ o = "success" /\ result # NoResponse
                        \/ o \in ErrorKinds}) = 1

\* C11: every started request reaches a terminal state, and it never makes more
\* than 2 primary calls or more than 1 chat-completion call.
C11_RequestTerminates ==
    /\ [](Cardinality(PrimaryIdx) <= 2 /\ Cardinality(ChatIdx) <= 1)
    /\ (pc \notin {"idle", "done"}) ~> (pc = "done")

C11_Witness ==
    /\ pc = "done"
    /\ Cardinality(PrimaryIdx) = 2
    /\ Cardinality(ChatIdx) = 1
    /\ Cardinality(TranscribeIdx) = 2

\* state of the per-request state machine of the specification
Phase(p, r) ==
    IF p = "idle" THEN "INIT"
    ELSE IF p \in {"primary", "after_loop"} THEN "TRYING_PRIMARY"
    ELSE IF p \in {"fallback", "chat"} THEN "TRYING_FALLBACK"
    ELSE IF r # NoResponse THEN "DONE" ELSE "FAILED"

\* the transitions the specification lists (a state may also keep its phase while
\* the request moves on inside it)
ListedTransitions ==
    {<<"INIT", "TRYING_PRIMARY">>,
     <<"TRYING_PRIMARY", "DONE">>,
     <<"TRYING_PRIMARY", "FAILED">>,
     <<"TRYING_PRIMARY", "TRYING_PRIMARY">>,
     <<"TRYING_PRIMARY", "TRYING_FALLBACK">>,
     <<"TRYING_FALLBACK", "TRYING_FALLBACK">>,
     <<"TRYING_FALLBACK", "DONE">>,
     <<"TRYING_FALLBACK", "FAILED">>}

\* the calls a step adds to the log
NewCalls == {i \in DOMAIN calls' : i > Len(calls)}

\* C12: a step of a request takes a listed transition; the fallback starts only
\* when 2 primary attempts have failed with quota errors; primary calls are made
\* only while trying the primary and before any secondary call, secondary calls
\* only while trying the fallback; a finished request makes no step at all (the
\* only step from DONE or FAILED starts the next request with an empty log).
C12_Step ==
    IF requests' = requests
    THEN /\ <<Phase(pc, result), Phase(pc', result')>> \in ListedTransitions
         /\ Len(calls') >= Len(calls)
         /\ SubSeq(calls', 1, Len(calls)) = calls
         /\ (Phase(pc, result) = "TRYING_PRIMARY" /\ Phase(pc', result') = "TRYING_FALLBACK")
               => PrimaryExhaustedByQuota /\ calls' = calls
         /\ \A i \in NewCalls :
               /\ calls'[i].op \in {"generate_content", "sleep"}
                     => Phase(pc, result) = "TRYING_PRIMARY" /\ ~SecondaryAttempted
               /\ calls'[i].op \in {"transcribe", "chat"}
                     => Phase(pc, result) = "TRYING_FALLBACK"
    ELSE /\ Phase(pc, result) \in {"INIT", "DONE", "FAILED"}
         /\ Phase(pc', result') = "TRYING_PRIMARY"
         /\ calls' = <<>>

C12_StateMachine == [][C12_Step]_vars

C12_Witness ==
    /\ pc = "done"
    /\ requests = 2
    /\ Cardinality(PrimaryIdx) = 2
    /\ Cardinality(TranscribeIdx) >= 1
    /\ Cardinality(ChatIdx) = 1

\* the request made two primary attempts: a quota failure, then a non-quota failure
QuotaThenNonQuota ==
    /\ Len(calls) >= 3
    /\ calls[1].op = "generate_content" /\ ~calls[1].ok /\ QuotaClassified(calls[1].val)
    /\ calls[3].op = "generate_content" /\ ~calls[3].ok /\ ~QuotaClassified(calls[3].val)

\* C13: when the first primary attempt fails with a quota error and the second
\* with a non-quota error, the finished request reports PrimaryProviderError with
\* the second error's message and nothing else, and the secondary is never
\* engaged, whether or not one is configured.
C13_LastErrorDecides ==
    QuotaThenNonQuota =>
        /\ ~SecondaryAttempted
        /\ last_exception = calls[3].val
        /\ pc = "done" =>
              /\ result = NoResponse
              /\ st_log = <<StMsg("error", PrimaryProviderError, calls[3].val)>>

C13_Witness ==
    /\ QuotaThenNonQuota
    /\ openai_client
    /\ pc = "done"

\* the audio parts of the request
AudioItems == {j \in DOMAIN contents.items : contents.items[j].type = "dict"}

\* C14: a finished request that engaged the secondary and has an audio part is a
\* success only if every audio part was transcribed and each transcription is in
\* the prompt given to chat completion; if a transcription failed, the request
\* is a failure reported as SecondaryProviderError.
C14_AudioTranscribedOrFailed ==
    (pc = "done" /\ SecondaryAttempted /\ AudioItems # {}) =>
        /\ result # NoResponse =>
              /\ Cardinality({i \in TranscribeIdx : calls[i].ok}) = Cardinality(AudioItems)
              /\ \A i \in TranscribeIdx :
                    Contains(final_prompt, TranscriptionPart(calls[i].val))
        /\ (\E i \in TranscribeIdx : ~calls[i].ok) =>
              /\ result = NoResponse
              /\ SecondaryProviderError \in ErrorKinds

IsSleep(c) == c.op = "sleep"

\* the sleeps of the request, in order
Sleeps == SelectSeq(calls, IsSleep)

\* C15: in a request the k-th sleep lasts 2^(k-1) units and the delay is 1 doubled
\* once per sleep made; a request that has just started has attempt = 0 and
\* delay = 1, whatever earlier requests did.
C15_DelayDoublesFromOne ==
    /\ \A k \in DOMAIN Sleeps : Sleeps[k].val = 2^(k - 1)
    /\ pc # "idle" => delay = 2^Len(Sleeps)
    /\ (pc = "primary" /\ calls = <<>>) => (attempt = 0 /\ delay = 1)

C15_Witness ==
    /\ requests = 2
    /\ Len(Sleeps) = 2
    /\ Sleeps[2].val = 2

\* the failed primary attempt at position i was followed by a backoff sleep
Retried(i) == i < Len(calls) /\ calls[i + 1].op = "sleep"

\* the request was found eligible for the fallback after the loop
FallbackEligible == FallbackEntries # {} \/ QuotaExceededNoFallback \in ErrorKinds

\* C16: a failed primary attempt is followed by a backoff sleep exactly when its
\* message contains a quota keyword, case-insensitively; and once the decision
\* after the loop is taken, the request is eligible for the fallback exactly
\* when its last failure was followed by a backoff sleep.
C16_ClassifiersAgree ==
    /\ \A i \in PrimaryIdx :
          ~calls[i].ok => (Retried(i) <=> QuotaClassified(calls[i].val))
    /\ (pc \in {"fallback", "chat", "done"} /\ PrimaryIdx # {}) =>
          LET last == CHOOSE i \in PrimaryIdx : \A j \in PrimaryIdx : j <= i IN
          ~calls[last].ok => (Retried(last) <=> FallbackEligible)

\* "limIT": a keyword in mixed case that straddles two pieces
C16_Witness ==
    /\ pc = "chat"
    /\ last_exception = <<"l","i","m","I","T">>
    /\ Cardinality(PrimaryIdx) = 2
    /\ FallbackEntries # {}

\* a finished request in which a transcription succeeded and the chat completion failed
PartialProgress ==
    /\ pc = "done"
    /\ \E i \in TranscribeIdx : calls[i].ok
    /\ \E j \in ChatIdx : ~calls[j].ok

\* C17: a request in which a transcription succeeded and the chat completion then
\* failed ends in failure with one chat call, one transcription call per audio
\* part and the failed chat call as its last call; and the step of a successful
\* transcription leaves no file behind.
C17_NoPartialRetry ==
    /\ [](PartialProgress =>
            /\ result = NoResponse
            /\ Cardinality(ChatIdx) = 1
            /\ Cardinality(TranscribeIdx) = Cardinality(AudioItems)
            /\ calls[Len(calls)].op = "chat")
    /\ [][(\E i \in NewCalls : calls'[i].op = "transcribe" /\ calls'[i].ok)
             => files' = files]_vars

C17_Witness ==
    /\ PartialProgress
    /\ Cardinality(TranscribeIdx) = 2
    /\ \A i \in TranscribeIdx : calls[i].ok
    /\ tmp_created # {}
    /\ tmp_created \cap files = {}

\* C18: when process_voice_correction returns after a failed request, it returns
\* the current text, and lyrics_processed still has the value it had when the
\* button was clicked; when generate_diacritics returns after a failed request,
\* it returns its input text.
C18_FailureKeepsText ==
    /\ (last_ret.fn = "process_voice_correction" /\ ~last_ret.ok) =>
          /\ last_ret.value = last_ret.arg
          /\ lyrics_processed = last_ret.arg
    /\ (last_ret.fn = "generate_diacritics" /\ ~last_ret.ok) =>
          last_ret.value = last_ret.arg

C18_Witness ==
    /\ last_ret.fn = "process_voice_correction"
    /\ ~last_ret.ok
    /\ handler = "generate_finglish"
    /\ lyrics_processed = <<"A","B","C">>

\* C19: when extract_lyrics_from_audio returns after a failed request, the step
\* of the handler changes none of lyrics_raw, lyrics_processed, lyrics_finglish,
\* ends the handler and issues no request.
C19_Step ==
    (handler = "extract_lyrics_from_audio" /\ pc = "done" /\ ~Truthy(result)) =>
        /\ UNCHANGED <<lyrics_raw, lyrics_processed, lyrics_finglish>>
        /\ handler' = "none"
        /\ UNCHANGED <<pc, contents, calls>>

C19_FailedExtractionChangesNothing == [][C19_Step]_vars

C19_Witness ==
    /\ last_ret.fn = "extract_lyrics_from_audio"
    /\ ~last_ret.ok
    /\ handler = "none"
    /\ lyrics_raw # <<>>
    /\ lyrics_processed # <<>>
    /\ lyrics_finglish # <<>>

====
